---- MODULE Spec2Model ----
(***************************************************************************)
(* A model of the wallet's transfer pipeline (src/src/main.rs): UTXO       *)
(* discovery over the per-owner chain, best-effort fetch, select_utxos,    *)
(* construct_transfer_tx, the prover call with its address check, and      *)
(* submit_transaction, for Commands::Transfer and                          *)
(* Commands::TransferPermissionless.                                       *)
(***************************************************************************)
EXTENDS Integers, Sequences, FiniteSets, TLC

(***************************************************************************)
(* Bounds of the model and constants of the program.                       *)
(***************************************************************************)
\* The scalar field is modelled by arithmetic modulo FrModulus (the real
\* field is some 2^254; every sum of two amounts of the model stays below it,
\* so that only a subtraction can wrap).
FrModulus == 61
\* Longest list of fetched UTXOs given to select_utxos in SelSpec.
MaxLen == 3
\* Longest prover result string given to the prover calls in FnSpec.
MaxStr == 5
\* Most pages ListUtxos asks for before the model stops following it.
MaxPages == 3

FrBytes == 32
Seed == 8
HopCap_Off == 100 + 1
HopCap == 100
SelectFee == 3
TxFee == 3

\* Ids the ledger hands out, amounts, addresses and a secret.
ChainIds == {1, 2}
Amounts == {10, 18}
UtxoAmounts == {5, 10, 20, 25}
Addrs == {4, 5}
ToAddrs == {9}
Secrets == {7}

Fr == 0 .. (FrModulus - 1)
NoFr == 0 - 1

(***************************************************************************)
(* Field arithmetic.                                                       *)
(***************************************************************************)
FrAdd(a, b) == (a + b) % FrModulus
FrSub(a, b) == (a - b + FrModulus) % FrModulus
is_zero(a) == a = 0

(***************************************************************************)
(* Hex text and the scalar codec. A string is a sequence of characters:    *)
(* 0..15 are the hex digits, BadChar is any character that is no hex       *)
(* digit, Comma is ','.                                                    *)
(***************************************************************************)
Comma == 16
BadChar == Comma + 1

hex_encode(bytes) ==
    [i \in 1 .. (2 * Len(bytes)) |->
        IF i % 2 = 1 THEN bytes[(i + 1) \div 2] \div 16 ELSE bytes[i \div 2] % 16]

HexPairs(s) == [i \in 1 .. (Len(s) \div 2) |-> 16 * s[2 * i - 1] + s[2 * i]]

\* hex::decode: fails on odd length and on any character that is no digit.
hex_decode(s) ==
    IF Len(s) % 2 = 1 \/ (\E i \in 1 .. Len(s) : s[i] > 15)
    THEN [ok |-> FALSE, bytes |-> <<>>]
    ELSE [ok |-> TRUE, bytes |-> HexPairs(s)]

Zeros(n) == [i \in 1 .. n |-> 0]

\* Fr::enc: the canonical big-endian bytes of the scalar. Every scalar of the
\* model is below 256, so it is the last byte.
FrEnc(x) == Zeros(FrBytes - 1) \o <<x>>

\* Fr::dec reads FrBytes bytes from the iterator and fails when there are
\* fewer or when the number is no scalar of the field.
FrDec(bytes) ==
    IF Len(bytes) < FrBytes THEN [ok |-> FALSE, val |-> NoFr]
    ELSE IF \E i \in 1 .. (FrBytes - 1) : bytes[i] # 0
         THEN [ok |-> FALSE, val |-> NoFr]
    ELSE IF bytes[FrBytes] >= FrModulus THEN [ok |-> FALSE, val |-> NoFr]
    ELSE [ok |-> TRUE, val |-> bytes[FrBytes]]

to_hex_PadOne(x) ==
    LET bytes == FrEnc(x)
        padded == Zeros(FrBytes + 1 - Len(bytes))
    IN hex_encode(padded \o bytes)

to_hex(x) ==
    LET bytes == FrEnc(x)
        padded == Zeros(IF FrBytes >= Len(bytes) THEN FrBytes - Len(bytes) ELSE 0)
    IN hex_encode(padded \o bytes)

from_hex(hex) ==
    LET d == hex_decode(hex)
    IN IF ~d.ok THEN [ok |-> FALSE, val |-> NoFr] ELSE FrDec(d.bytes)

\* hex::decode(..)? followed by Fr::dec(..)? on a string of a reply.
DecodeFrHex(s) == from_hex(s)

BadHex == <<BadChar, 0>>
ShortHex == <<0, 1>>

(***************************************************************************)
(* Records.                                                                *)
(***************************************************************************)
Out(amount, owner, data) == [amount |-> amount, owner |-> owner, data |-> data]
OutDefault == Out(0, 0, <<>>)
Input(id, out) == [id |-> id, out |-> out]
NoInput == Input(NoFr, OutDefault)
NoTx == [ix |-> NoFr, iy |-> NoFr, ox |-> OutDefault, oy |-> OutDefault]

(***************************************************************************)
(* JSON-RPC replies and the client's calls.                                *)
(***************************************************************************)
\* A JSON value: a string, or something else (a number, an object, ...).
JsonStr(s) == [is_str |-> TRUE, str |-> s]
JsonOther == [is_str |-> FALSE, str |-> <<>>]

\* A reply: an optional error payload and an optional result.
Reply(has_error, error, has_result, result) ==
    [has_error |-> has_error, error |-> error, has_result |-> has_result,
     result |-> result]
RpcReply(has_error, has_result, is_str, str) ==
    Reply(has_error, IF has_error THEN 1 ELSE 0, has_result,
          IF is_str THEN JsonStr(str) ELSE JsonOther)
ErrorReply == RpcReply(TRUE, FALSE, FALSE, <<>>)
NoResultReply == RpcReply(FALSE, FALSE, FALSE, <<>>)
NonStringReply == RpcReply(FALSE, TRUE, FALSE, <<>>)
StringReply(s) == RpcReply(FALSE, TRUE, TRUE, s)

\* Err(anyhow!(..)) of call_rpc: which of the two, and the payload it carries.
RpcErr(err, payload) == [ok |-> FALSE, err |-> err, payload |-> payload, value |-> JsonOther]

call_rpc_ResultFirst(reply) ==
    IF reply.has_result
    THEN [ok |-> TRUE, err |-> "none", payload |-> 0, value |-> reply.result]
    ELSE IF reply.has_error THEN RpcErr("rpc", reply.error)
    ELSE RpcErr("noresult", 0)

call_rpc(reply) ==
    IF reply.has_error THEN RpcErr("rpc", reply.error)
    ELSE IF ~reply.has_result THEN RpcErr("noresult", 0)
    ELSE [ok |-> TRUE, err |-> "none", payload |-> 0, value |-> reply.result]

\* result.as_str().unwrap_or("")
AsStrOrEmpty(r) == IF r.is_str THEN r.str ELSE <<>>

get_next_id_of_utxo_by_owner(reply) ==
    LET result == call_rpc(reply)
    IN IF ~result.ok THEN [ok |-> FALSE, str |-> <<>>]
       ELSE [ok |-> TRUE, str |-> AsStrOrEmpty(result.value)]

submit_transaction(reply) == call_rpc(reply).ok

get_utxo(reply) ==
    LET result == call_rpc(reply)
    IN IF ~result.ok THEN [ok |-> FALSE, str |-> <<>>]
       ELSE [ok |-> TRUE, str |-> AsStrOrEmpty(result.value)]

(***************************************************************************)
(* The encoding of an output record: amount, owner, the number of data     *)
(* scalars, the data scalars.                                              *)
(***************************************************************************)
RECURSIVE EncData(_)
EncData(data) ==
    IF data = <<>> THEN <<>> ELSE FrEnc(Head(data)) \o EncData(Tail(data))

OutEnc(out) ==
    FrEnc(out.amount) \o FrEnc(out.owner) \o <<Len(out.data)>> \o EncData(out.data)

\* The bytes from..to of an iterator, none when it runs out before.
Slice(bytes, from, to) == IF to <= Len(bytes) THEN SubSeq(bytes, from, to) ELSE <<>>

OutDec(bytes) ==
    LET amount == FrDec(Slice(bytes, 1, FrBytes))
        owner == FrDec(Slice(bytes, FrBytes + 1, 2 * FrBytes))
        n == IF Len(bytes) > 2 * FrBytes THEN bytes[2 * FrBytes + 1] ELSE NoFr
        item(k) == FrDec(Slice(bytes, 2 * FrBytes + 2 + (k - 1) * FrBytes,
                               2 * FrBytes + 1 + k * FrBytes))
    IN IF ~amount.ok \/ ~owner.ok \/ n = NoFr THEN [ok |-> FALSE, out |-> OutDefault]
       ELSE IF \E k \in 1 .. n : ~item(k).ok THEN [ok |-> FALSE, out |-> OutDefault]
       ELSE [ok |-> TRUE,
             out |-> Out(amount.val, owner.val, [k \in 1 .. n |-> item(k).val])]

decode_utxo(utxo_hex) ==
    LET d == hex_decode(utxo_hex)
    IN IF ~d.ok THEN [ok |-> FALSE, out |-> OutDefault] ELSE OutDec(d.bytes)

(***************************************************************************)
(* UTXO selection and transaction assembly.                                *)
(***************************************************************************)
fr_gte_Never(fr1, fr2) == FALSE

fr_gte_Real(fr1, fr2) == fr1 >= fr2

fr_gte(fr1, fr2) ==
    LET diff == FrSub(fr1, fr2)
    IN TRUE

NoneSel == [some |-> FALSE, a |-> NoInput, b |-> NoInput]
SomeSel(a, b) == [some |-> TRUE, a |-> a, b |-> b]

select_utxos_NeverNone(utxos, amount) ==
    LET fee == SelectFee
        required == FrAdd(amount, fee)
        n == Len(utxos)
        singles == {i \in 1 .. n : fr_gte(utxos[i].out.amount, required)}
        first == CHOOSE i \in singles : \A k \in singles : i <= k
    IN IF singles # {} THEN SomeSel(utxos[first], Input(0, OutDefault))
       ELSE SomeSel(Input(0, OutDefault), Input(0, OutDefault))

select_utxos(utxos, amount) ==
    IF utxos = <<>> THEN NoneSel
    ELSE
    LET fee == SelectFee
        required == FrAdd(amount, fee)
        n == Len(utxos)
        singles == {i \in 1 .. n : fr_gte(utxos[i].out.amount, required)}
        first == CHOOSE i \in singles : \A k \in singles : i <= k
        pairs == {p \in (1 .. n) \X (1 .. n) :
                    /\ p[1] < p[2]
                    /\ fr_gte(FrAdd(utxos[p[1]].out.amount, utxos[p[2]].out.amount),
                              required)}
        firstPair == CHOOSE p \in pairs : \A q \in pairs :
                        p[1] < q[1] \/ (p[1] = q[1] /\ p[2] <= q[2])
    IN IF singles # {} THEN SomeSel(utxos[first], Input(0, OutDefault))
       ELSE IF pairs # {} THEN SomeSel(utxos[firstPair[1]], utxos[firstPair[2]])
       ELSE NoneSel

construct_transfer_tx_NoFee(input1, input2, to, amount, change_to) ==
    LET total_input == FrAdd(input1.out.amount, input2.out.amount)
        change == FrSub(total_input, amount)
    IN [ix |-> input1.id,
        iy |-> input2.id,
        ox |-> Out(amount, to, <<0, 0, 0>>),
        oy |-> Out(change, change_to, <<>>)]

construct_transfer_tx_Swapped(input1, input2, to, amount, change_to) ==
    LET total_input == FrAdd(input1.out.amount, input2.out.amount)
        change == FrSub(FrSub(total_input, amount), TxFee)
    IN [ix |-> input2.id,
        iy |-> input1.id,
        ox |-> Out(amount, to, <<0, 0, 0>>),
        oy |-> Out(change, change_to, <<>>)]

construct_transfer_tx(input1, input2, to, amount, change_to) ==
    LET total_input == FrAdd(input1.out.amount, input2.out.amount)
        fee == TxFee
        change == FrSub(FrSub(total_input, amount), fee)
        fee_data == <<0, 0, 0>>
    IN [ix |-> input1.id,
        iy |-> input2.id,
        ox |-> Out(amount, to, fee_data),
        oy |-> Out(change, change_to, <<>>)]

(***************************************************************************)
(* The prover behind the foreign call boundary.                            *)
(***************************************************************************)
\* What the native call hands back: a null pointer or a string.
FfiNull == [null |-> TRUE, str |-> <<>>]
FfiStr(s) == [null |-> FALSE, str |-> s]

RECURSIVE Split(_)
Split(s) ==
    IF \A i \in 1 .. Len(s) : s[i] # Comma THEN <<s>>
    ELSE LET k == CHOOSE i \in 1 .. Len(s) :
                     s[i] = Comma /\ \A m \in 1 .. (i - 1) : s[m] # Comma
         IN <<SubSeq(s, 1, k - 1)>> \o Split(SubSeq(s, k + 1, Len(s)))

NoParts == [ok |-> FALSE, proof |-> <<>>, vk |-> <<>>, addr |-> <<>>]

parse_proof_result_AtLeast3(result) ==
    LET parts == Split(result)
    IN IF Len(parts) >= 3
       THEN [ok |-> TRUE, proof |-> parts[1], vk |-> parts[2], addr |-> parts[3]]
       ELSE NoParts

parse_proof_result(result) ==
    LET parts == Split(result)
    IN IF Len(parts) = 3
       THEN [ok |-> TRUE, proof |-> parts[1], vk |-> parts[2], addr |-> parts[3]]
       ELSE NoParts

generate_address(ffi) ==
    IF ffi.null THEN [ok |-> FALSE, str |-> <<>>]
    ELSE IF ffi.str = <<>> THEN [ok |-> FALSE, str |-> <<>>]
    ELSE [ok |-> TRUE, str |-> ffi.str]

generate_proof_hash_wallet(ffi) ==
    IF ffi.null THEN NoParts
    ELSE IF ffi.str = <<>> THEN NoParts
    ELSE parse_proof_result(ffi.str)

generate_proof_permissionless(ffi) ==
    IF ffi.null THEN NoParts
    ELSE IF ffi.str = <<>> THEN NoParts
    ELSE parse_proof_result(ffi.str)

\* The comparison of the attested address with the expected one.
AddressMismatch_Never(addr, expected) == FALSE

AddressMismatch(addr, expected) == addr # expected


(***************************************************************************)
(* The ledger service. What it answers to a next-id call for a given id is *)
(* fixed the first time it is asked (chain), so that a chain may end, go   *)
(* on, or cycle; what it answers to get_utxo is its table (ledger).        *)
(***************************************************************************)
Hop(kind, val) == [kind |-> kind, val |-> val]
NoHop == Hop("none", NoFr)
ChainKeys == {Seed} \cup ChainIds
NextHops ==
    {Hop(k, NoFr) : k \in {"err", "noresult", "nonstr", "empty", "badhex", "short"}}
    \cup {Hop("id", v) : v \in ChainIds \cup {0}}

NextReply(hop) ==
    CASE hop.kind = "err" -> ErrorReply
      [] hop.kind = "noresult" -> NoResultReply
      [] hop.kind = "nonstr" -> NonStringReply
      [] hop.kind = "empty" -> StringReply(<<>>)
      [] hop.kind = "badhex" -> StringReply(BadHex)
      [] hop.kind = "short" -> StringReply(ShortHex)
      [] OTHER -> StringReply(to_hex(hop.val))

\* The id the service reads from the hex text of a request.
ServerKey(id_hex) == from_hex(id_hex).val

Entry(kind, amount) == [kind |-> kind, amount |-> amount]
LedgerTables ==
    { (1 :> Entry("out", 20) @@ 2 :> Entry("out", 5)),
      (1 :> Entry("out", 5) @@ 2 :> Entry("bad", 0)),
      (1 :> Entry("err", 0) @@ 2 :> Entry("out", 25)) }

UtxoReply(entry, owner) ==
    CASE entry.kind = "err" -> ErrorReply
      [] entry.kind = "bad" -> StringReply(ShortHex)
      [] OTHER -> StringReply(hex_encode(OutEnc(Out(entry.amount, owner, <<>>))))

\* What the native prover may hand back for an address and for a proof.
AddressResults ==
    {FfiNull, FfiStr(<<>>), FfiStr(BadHex)} \cup {FfiStr(to_hex(a)) : a \in Addrs}

ProofHex == <<10, 11>>
VkHex == <<12, 13>>
ProofResults ==
    {FfiNull, FfiStr(<<>>),
     FfiStr(ProofHex \o <<Comma>> \o VkHex),
     FfiStr(ProofHex \o <<Comma>> \o VkHex \o <<Comma>> \o BadHex),
     FfiStr(BadHex \o <<Comma>> \o VkHex \o <<Comma>> \o to_hex(4)),
     FfiStr(ProofHex \o <<Comma>> \o BadHex \o <<Comma>> \o to_hex(4))}
    \cup {FfiStr(ProofHex \o <<Comma>> \o VkHex \o <<Comma>> \o to_hex(a)) : a \in Addrs}
    \cup {FfiStr(ProofHex \o <<Comma>> \o VkHex \o <<Comma>> \o to_hex(a)
                 \o <<Comma>> \o VkHex) : a \in Addrs}

(***************************************************************************)
(* State of one invocation of a transfer command.                          *)
(***************************************************************************)
VARIABLES
    cmd,            \* "Transfer" or "TransferPermissionless"
    from_fr,        \* --from
    to_fr,          \* --to
    amount_fr,      \* --amount
    secret_fr,      \* --secret (Transfer only)
    ledger,         \* the service's table of outputs
    chain,          \* the service's next-id answers given so far
    pc,             \* where main is
    hops,           \* iterations of the discovery loop begun
    current_id,
    utxo_ids,
    fetch_idx,      \* position of the fetch loop in utxo_ids
    all_utxos,
    selected,
    from_address,   \* Transfer: the address derived from the secret
    tx,
    proved,         \* the transaction whose public inputs the prover was given
    addr,           \* the address the prover attested
    wp_tx,          \* the proved transaction handed to submit_transaction
    status,         \* how the invocation ended
    rpc_log,        \* the calls made to the service, in order
    last_utxo_id,   \* ListUtxos: the cursor of the next page
    total_utxos,    \* ListUtxos: outputs counted so far
    pages,          \* ListUtxos: the pages asked for and what came back
    probe           \* a function of the program applied on its own to an input

vars == <<cmd, from_fr, to_fr, amount_fr, secret_fr, ledger, chain, pc, hops,
          current_id, utxo_ids, fetch_idx, all_utxos, selected, from_address, tx,
          proved, addr, wp_tx, status, rpc_log, last_utxo_id, total_utxos, pages,
          probe>>

args == <<cmd, from_fr, to_fr, amount_fr, secret_fr, ledger>>

\* What a transfer command does not touch.
idle == <<last_utxo_id, total_utxos, pages, probe>>
NoCursor == <<>>
NoProbe == [fn |-> "none", done |-> FALSE, input |-> <<>>, output |-> <<>>]
Idle ==
    /\ last_utxo_id = NoCursor
    /\ total_utxos = 0
    /\ pages = <<>>
    /\ probe = NoProbe

NoWp == [vk |-> <<>>, proof |-> <<>>, val |-> NoTx]
Call(method, arg, kind, val) == [method |-> method, arg |-> arg, kind |-> kind, val |-> val]

Init ==
    /\ cmd \in {"Transfer", "TransferPermissionless"}
    /\ from_fr \in Addrs
    /\ to_fr \in ToAddrs
    /\ amount_fr \in Amounts
    /\ secret_fr \in Secrets
    /\ ledger \in LedgerTables
    /\ chain = [k \in ChainKeys |-> NoHop]
    /\ pc = "discover"
    /\ hops = 0
    /\ current_id = Seed
    /\ utxo_ids = <<>>
    /\ fetch_idx = 1
    /\ all_utxos = <<>>
    /\ selected = NoneSel
    /\ from_address = NoFr
    /\ tx = NoTx
    /\ proved = NoTx
    /\ addr = NoFr
    /\ wp_tx = NoWp
    /\ status = "running"
    /\ rpc_log = <<>>
    /\ Idle

(***************************************************************************)
(* Discovery: one iteration of `for _ in 0..100`, with its next-id call.   *)
(***************************************************************************)
\* The body of the loop on the answer r of the next-id call.
Step(ctl, ids, cur) == [ctl |-> ctl, utxo_ids |-> ids, current_id |-> cur]

discover_step_StaleId(r, ids, cur) ==
    LET next_id == DecodeFrHex(r.str)
    IN IF ~r.ok THEN Step("break", ids, cur)
       ELSE IF r.str = <<>> THEN Step("break", ids, cur)
       ELSE IF ~next_id.ok THEN Step("fail", ids, cur)
       ELSE IF is_zero(next_id.val) THEN Step("break", ids, cur)
       ELSE Step("next", Append(ids, next_id.val), cur)

discover_step(r, ids, cur) ==
    LET next_id == DecodeFrHex(r.str)
    IN IF ~r.ok THEN Step("break", ids, cur)
       ELSE IF r.str = <<>> THEN Step("break", ids, cur)
       ELSE IF ~next_id.ok THEN Step("fail", ids, cur)
       ELSE IF is_zero(next_id.val) THEN Step("break", ids, cur)
       ELSE Step("next", Append(ids, next_id.val), next_id.val)

NextId ==
    /\ pc = "discover"
    /\ hops < HopCap
    /\ LET id_hex == to_hex(current_id)
           key == ServerKey(id_hex)
       IN \E hop \in (IF chain[key] = NoHop THEN NextHops ELSE {chain[key]}) :
            LET r == get_next_id_of_utxo_by_owner(NextReply(hop))
                st == discover_step(r, utxo_ids, current_id)
            IN /\ chain' = [chain EXCEPT ![key] = hop]
               /\ rpc_log' = Append(rpc_log, Call("next", key, hop.kind, hop.val))
               /\ hops' = hops + 1
               /\ utxo_ids' = st.utxo_ids
               /\ current_id' = st.current_id
               /\ pc' = IF st.ctl = "fail" THEN "done"
                        ELSE IF st.ctl = "break" \/ hops + 1 = HopCap
                             THEN (IF st.utxo_ids = <<>> THEN "select" ELSE "fetch")
                        ELSE "discover"
               /\ status' = IF st.ctl = "fail" THEN "error" ELSE status
    /\ UNCHANGED <<args, idle, fetch_idx, all_utxos, selected, from_address, tx, proved,
                   addr, wp_tx>>

(***************************************************************************)
(* Fetch: one iteration of `for utxo_id in utxo_ids`, with its get_utxo.   *)
(***************************************************************************)
\* The body of the loop on the answer r of get_utxo.
fetch_step_PushDefault(r, utxo_id, utxos) ==
    IF r.ok
    THEN LET utxo == decode_utxo(r.str)
         IN IF utxo.ok THEN Append(utxos, Input(utxo_id, utxo.out))
            ELSE Append(utxos, Input(utxo_id, OutDefault))
    ELSE utxos

fetch_step(r, utxo_id, utxos) ==
    IF r.ok
    THEN LET utxo == decode_utxo(r.str)
         IN IF utxo.ok THEN Append(utxos, Input(utxo_id, utxo.out)) ELSE utxos
    ELSE utxos

GetUtxo ==
    /\ pc = "fetch"
    /\ LET utxo_id == utxo_ids[fetch_idx]
           utxo_id_hex == to_hex(utxo_id)
           key == ServerKey(utxo_id_hex)
           entry == ledger[key]
           r == get_utxo(UtxoReply(entry, from_fr))
       IN /\ all_utxos' = fetch_step(r, utxo_id, all_utxos)
          /\ rpc_log' = Append(rpc_log, Call("get_utxo", key, entry.kind, entry.amount))
    /\ fetch_idx' = fetch_idx + 1
    /\ pc' = IF fetch_idx = Len(utxo_ids) THEN "select" ELSE "fetch"
    /\ UNCHANGED <<args, idle, chain, hops, current_id, utxo_ids, selected, from_address,
                   tx, proved, addr, wp_tx, status>>

(***************************************************************************)
(* Selection, address derivation, assembly.                                *)
(***************************************************************************)
SelectUtxos ==
    /\ pc = "select"
    /\ LET s == select_utxos(all_utxos, amount_fr)
       IN /\ selected' = s
          /\ pc' = IF ~s.some THEN "done"
                   ELSE IF cmd = "Transfer" THEN "address" ELSE "construct"
          /\ status' = IF ~s.some THEN "insufficient" ELSE status
    /\ UNCHANGED <<args, idle, chain, hops, current_id, utxo_ids, fetch_idx, all_utxos,
                   from_address, tx, proved, addr, wp_tx, rpc_log>>

GenerateAddress ==
    /\ pc = "address"
    /\ \E ffi \in AddressResults :
         LET from_address_hex == generate_address(ffi)
             a == DecodeFrHex(from_address_hex.str)
             good == from_address_hex.ok /\ a.ok
         IN /\ from_address' = IF good THEN a.val ELSE from_address
            /\ pc' = IF good THEN "construct" ELSE "done"
            /\ status' = IF good THEN status ELSE "error"
    /\ UNCHANGED <<args, idle, chain, hops, current_id, utxo_ids, fetch_idx, all_utxos,
                   selected, tx, proved, addr, wp_tx, rpc_log>>

Expected_FromArg == from_fr

\* The address the change goes to and the attested address is compared with.
Expected == IF cmd = "Transfer" THEN from_address ELSE from_fr

ConstructTx ==
    /\ pc = "construct"
    /\ tx' = construct_transfer_tx(selected.a, selected.b, to_fr, amount_fr, Expected)
    /\ pc' = "prove"
    /\ UNCHANGED <<args, idle, chain, hops, current_id, utxo_ids, fetch_idx, all_utxos,
                   selected, from_address, proved, addr, wp_tx, status, rpc_log>>


(***************************************************************************)
(* Proving: the prover call, the address check, the decoding of the proof  *)
(* and of the verification key. Proof::dec and Vk::dec are opaque: either  *)
(* may reject the bytes (dec).                                             *)
(***************************************************************************)
GenerateProof ==
    /\ pc = "prove"
    /\ \E ffi \in ProofResults, dec \in {"ok", "proof", "vk"} :
         LET res == IF cmd = "Transfer" THEN generate_proof_hash_wallet(ffi)
                    ELSE generate_proof_permissionless(ffi)
             a == DecodeFrHex(res.addr)
             proof_bytes == hex_decode(res.proof)
             vk_bytes == hex_decode(res.vk)
             mismatch == a.ok /\ AddressMismatch(a.val, Expected)
             \* Transfer decodes and checks the address first;
             \* TransferPermissionless hex-decodes the proof before that.
             early == cmd = "TransferPermissionless" /\ ~proof_bytes.ok
             outcome ==
                 IF ~res.ok THEN "prover_failed"
                 ELSE IF early THEN "error"
                 ELSE IF ~a.ok THEN "error"
                 ELSE IF mismatch THEN "address_mismatch"
                 ELSE IF ~proof_bytes.ok \/ dec = "proof" THEN "error"
                 ELSE IF ~vk_bytes.ok \/ dec = "vk" THEN "error"
                 ELSE "proved"
         IN /\ proved' = tx
            /\ addr' = IF res.ok /\ ~early /\ a.ok THEN a.val ELSE addr
            /\ wp_tx' = IF outcome = "proved"
                        THEN [vk |-> vk_bytes.bytes, proof |-> proof_bytes.bytes, val |-> tx]
                        ELSE wp_tx
            /\ pc' = IF outcome = "proved" THEN "submit" ELSE "done"
            /\ status' = IF outcome = "proved" THEN status ELSE outcome
    /\ UNCHANGED <<args, idle, chain, hops, current_id, utxo_ids, fetch_idx, all_utxos,
                   selected, from_address, tx, rpc_log>>

(***************************************************************************)
(* Submission.                                                             *)
(***************************************************************************)
SubmitReplies == {ErrorReply, NoResultReply, NonStringReply, StringReply(<<>>)}
ReplyKind(reply) ==
    IF reply.has_error THEN "err" ELSE IF ~reply.has_result THEN "noresult" ELSE "ok"

SubmitTransaction_Retry ==
    /\ pc = "submit"
    /\ \E reply \in SubmitReplies :
         /\ rpc_log' = Append(rpc_log, Call("submit", NoFr, ReplyKind(reply), NoFr))
         /\ status' = IF submit_transaction(reply) THEN "submitted" ELSE "submit_failed"
         /\ pc' = IF submit_transaction(reply) \/ status = "submit_failed"
                  THEN "done" ELSE "submit"
    /\ UNCHANGED <<args, idle, chain, hops, current_id, utxo_ids, fetch_idx, all_utxos,
                   selected, from_address, tx, proved, addr, wp_tx>>

SubmitTransaction ==
    /\ pc = "submit"
    /\ \E reply \in SubmitReplies :
         /\ rpc_log' = Append(rpc_log, Call("submit", NoFr, ReplyKind(reply), NoFr))
         /\ status' = IF submit_transaction(reply) THEN "submitted" ELSE "submit_failed"
    /\ pc' = "done"
    /\ UNCHANGED <<args, idle, chain, hops, current_id, utxo_ids, fetch_idx, all_utxos,
                   selected, from_address, tx, proved, addr, wp_tx>>

Next ==
    \/ NextId
    \/ GetUtxo
    \/ SelectUtxos
    \/ GenerateAddress
    \/ ConstructTx
    \/ GenerateProof
    \/ SubmitTransaction

Spec == Init /\ [][Next]_vars

(***************************************************************************)
(* SelSpec: selection and assembly over every list of up to MaxLen fetched *)
(* outputs. It starts where the fetch loop ends, on a ledger whose chain   *)
(* 8 -> 1 -> ... -> n -> 0 holds the n outputs.                            *)
(***************************************************************************)
SelIds == 1 .. MaxLen
SelAmountLists == UNION {[1 .. n -> UtxoAmounts] : n \in 0 .. MaxLen}

SelChain(n) ==
    [k \in {Seed} \cup SelIds |->
        IF k = Seed THEN Hop("id", IF n >= 1 THEN 1 ELSE 0)
        ELSE IF k < n THEN Hop("id", k + 1)
        ELSE IF k = n THEN Hop("id", 0)
        ELSE NoHop]

SelLog(amts) ==
    LET n == Len(amts)
    IN [i \in 1 .. (n + 1) |->
           Call("next", IF i = 1 THEN Seed ELSE i - 1, "id", IF i <= n THEN i ELSE 0)]
       \o [i \in 1 .. n |-> Call("get_utxo", i, "out", amts[i])]

InitSel ==
    /\ cmd \in {"Transfer", "TransferPermissionless"}
    /\ from_fr \in Addrs
    /\ to_fr \in ToAddrs
    /\ amount_fr \in Amounts
    /\ secret_fr \in Secrets
    /\ \E amts \in SelAmountLists :
         LET n == Len(amts)
         IN /\ ledger = [i \in SelIds |->
                            IF i <= n THEN Entry("out", amts[i]) ELSE Entry("err", 0)]
            /\ chain = SelChain(n)
            /\ hops = n + 1
            /\ current_id = IF n = 0 THEN Seed ELSE n
            /\ utxo_ids = [i \in 1 .. n |-> i]
            /\ fetch_idx = n + 1
            /\ all_utxos = [i \in 1 .. n |-> Input(i, Out(amts[i], from_fr, <<>>))]
            /\ rpc_log = SelLog(amts)
    /\ pc = "select"
    /\ selected = NoneSel
    /\ from_address = NoFr
    /\ tx = NoTx
    /\ proved = NoTx
    /\ addr = NoFr
    /\ wp_tx = NoWp
    /\ status = "running"
    /\ Idle

NextSel ==
    \/ SelectUtxos
    \/ GenerateAddress
    \/ ConstructTx

SelSpec == InitSel /\ [][NextSel]_vars


(***************************************************************************)
(* Properties.                                                             *)
(***************************************************************************)
NextIdx == {i \in DOMAIN rpc_log : rpc_log[i].method = "next"}
FetchIdx == {i \in DOMAIN rpc_log : rpc_log[i].method = "get_utxo"}
Submitted == \E i \in DOMAIN rpc_log : rpc_log[i].method = "submit"
\* select_utxos has returned.
Selected == pc \notin {"discover", "fetch", "select"}
Placeholder == Input(0, OutDefault)

\* Amounts as integers.
Amt(i) == all_utxos[i].out.amount
Need == amount_fr + 3
SingleCovers == \E i \in DOMAIN all_utxos : Amt(i) >= Need
PairCovers == \E i, j \in DOMAIN all_utxos : i < j /\ Amt(i) + Amt(j) >= Need
FirstSingle == CHOOSE i \in DOMAIN all_utxos :
                   Amt(i) >= Need /\ \A k \in 1 .. (i - 1) : Amt(k) < Need
FirstPair == CHOOSE p \in (DOMAIN all_utxos) \X (DOMAIN all_utxos) :
                 /\ p[1] < p[2] /\ Amt(p[1]) + Amt(p[2]) >= Need
                 /\ \A i, j \in DOMAIN all_utxos :
                        (i < j /\ Amt(i) + Amt(j) >= Need)
                            => (p[1] < i \/ (p[1] = i /\ p[2] <= j))
SelTotal == selected.a.out.amount + selected.b.out.amount

\* C1: in both transfer commands, when the address the prover attests differs
\* from the expected one (derived from the secret, or the declared --from), the
\* invocation ends with an address mismatch and submit_transaction is not called.
C1_AddressCheck ==
    /\ (addr # NoFr /\ addr # Expected) =>
           (pc = "done" /\ status = "address_mismatch" /\ ~Submitted /\ wp_tx = NoWp)
    /\ Submitted => addr = Expected

C1_Witness ==
    /\ status = "address_mismatch"
    /\ addr \in Addrs /\ Expected \in Addrs /\ addr # Expected
    /\ ~Submitted

\* C2: select_utxos fails whenever neither one fetched output nor a pair of
\* them covers amount + fee, and never returns a selection worth less.
C2_InsufficientFundsFails ==
    Selected =>
        /\ (~SingleCovers /\ ~PairCovers) => ~selected.some
        /\ selected.some => SelTotal >= Need

\* C3: the change of every assembled transaction is the integer
\* input1.amount + input2.amount - amount - fee >= 0, never a wrapped scalar.
C3_ChangeNotWrapped ==
    tx # NoTx => (SelTotal >= Need /\ tx.oy.amount = SelTotal - Need)

\* C4: for every selection that select_utxos accepted, the assembled
\* transaction has ox.amount + oy.amount + fee = input1.amount + input2.amount
\* in the field, and an unused second input contributes 0.
C4_Conservation ==
    tx # NoTx =>
        /\ FrAdd(FrAdd(tx.ox.amount, tx.oy.amount), 3)
               = FrAdd(selected.a.out.amount, selected.b.out.amount)
        /\ tx.iy = 0 => selected.b.out.amount = 0

C4_Witness ==
    /\ tx # NoTx /\ selected.some
    /\ tx.iy = 0 /\ tx.ox.amount = amount_fr
    /\ tx.oy.amount + amount_fr + 3 = selected.a.out.amount

\* C5: when some fetched output alone covers amount + fee, select_utxos returns
\* the first such output with the placeholder as second input; the single pass
\* never returns an output worth less than amount + fee.
C5_SinglePickPrecedence ==
    Selected =>
        /\ SingleCovers => selected = SomeSel(all_utxos[FirstSingle], Placeholder)
        /\ (selected.some /\ selected.b = Placeholder) => selected.a.out.amount >= Need

\* C6: when no single output covers amount + fee, select_utxos returns the
\* first pair (i, j), i < j, i outer and j inner, whose sum covers it.
C6_PairwiseFallback ==
    (Selected /\ ~SingleCovers /\ PairCovers) =>
        selected = SomeSel(all_utxos[FirstPair[1]], all_utxos[FirstPair[2]])

\* C7: whenever one output or a pair of outputs at different positions covers
\* amount + fee, select_utxos succeeds.
C7_SelectorComplete ==
    (Selected /\ (SingleCovers \/ PairCovers)) => selected.some

C7_Witness ==
    Selected /\ ~SingleCovers /\ PairCovers /\ selected.some /\ Len(all_utxos) >= 2

\* C8: discovery makes at most 100 next-id calls whatever the service answers,
\* has left the loop after the 100th, and yields at most 100 ids, hence at most
\* 100 get_utxo calls and fetched entries.
C8_DiscoveryBounded ==
    /\ Cardinality(NextIdx) <= 100
    /\ Cardinality(NextIdx) = 100 => pc # "discover"
    /\ Len(utxo_ids) <= 100
    /\ Cardinality(FetchIdx) <= 100
    /\ Len(all_utxos) <= 100

C8_Witness ==
    /\ Cardinality(NextIdx) = 100 /\ Len(utxo_ids) = 100
    /\ Cardinality(FetchIdx) = 100 /\ pc = "select"

\* C9: the first next-id call is made with the seed 8 and every later one with
\* the id the previous call returned; the ids discovered are the non-zero ids
\* returned, in order; a zero or empty answer ends discovery and is neither
\* recorded nor fetched.
C9_ChainFollowed ==
    LET n == Cardinality(NextIdx)
        k == Len(utxo_ids)
        Ends(c) == c.kind = "empty" \/ (c.kind = "id" /\ c.val = 0)
    IN /\ NextIdx = 1 .. n
       /\ \A i \in 1 .. n :
              rpc_log[i].arg = IF i = 1 THEN 8 ELSE rpc_log[i - 1].val
       /\ k <= n
       /\ \A i \in 1 .. k :
              rpc_log[i].kind = "id" /\ rpc_log[i].val # 0 /\ utxo_ids[i] = rpc_log[i].val
       /\ (n > 0 /\ Ends(rpc_log[n])) => (k = n - 1 /\ pc # "discover")
       /\ \A i \in FetchIdx : rpc_log[i].arg # 0 /\ rpc_log[i].arg = utxo_ids[i - n]

C9_Witness ==
    /\ pc = "select" /\ Len(utxo_ids) = 2 /\ Cardinality(NextIdx) = 3
    /\ rpc_log[3].kind = "id" /\ rpc_log[3].val = 0
    /\ Cardinality(FetchIdx) = 2

\* A next-id call or a get_utxo call has returned an RPC error.
RpcFailed ==
    \E i \in NextIdx \cup FetchIdx : rpc_log[i].kind = "err"

\* C10: once a next-id call or a get_utxo call of discovery has returned an RPC
\* error, the invocation surfaces the error and neither selects, proves nor
\* submits.
C10_RpcErrorAborts ==
    RpcFailed =>
        /\ ~selected.some /\ tx = NoTx /\ proved = NoTx /\ ~Submitted
        /\ status \in {"running", "error"}
        /\ pc = "done" => status = "error"


SubmitIdx == {i \in DOMAIN rpc_log : rpc_log[i].method = "submit"}

\* C11: submit_transaction is called only after discovery and fetch are over,
\* select_utxos has succeeded, the transaction is assembled, the prover has
\* answered for that transaction and the address check has passed; when
\* selection fails (also on an empty discovered set) or the prover fails, no
\* later stage runs and nothing is submitted.
C11_StageOrder ==
    /\ (pc = "submit" \/ Submitted) =>
           /\ Cardinality(NextIdx) = hops
           /\ Cardinality(FetchIdx) = Len(utxo_ids)
           /\ all_utxos # <<>> /\ selected.some
           /\ tx = construct_transfer_tx(selected.a, selected.b, to_fr, amount_fr, Expected)
           /\ proved = tx /\ wp_tx.val = tx
           /\ addr = Expected
           /\ \A i \in SubmitIdx : i = Len(rpc_log)
    /\ (all_utxos = <<>> /\ pc \notin {"discover", "fetch", "select"}) =>
           /\ pc = "done" /\ status \in {"insufficient", "error"}
           /\ from_address = NoFr /\ tx = NoTx /\ ~Submitted
    /\ status = "insufficient" =>
           /\ pc = "done" /\ ~selected.some
           /\ from_address = NoFr /\ tx = NoTx /\ proved = NoTx /\ wp_tx = NoWp
           /\ ~Submitted
    /\ status = "prover_failed" => (pc = "done" /\ wp_tx = NoWp /\ ~Submitted)
    /\ tx # NoTx => selected.some
    /\ proved # NoTx => proved = tx
    /\ wp_tx # NoWp => (proved # NoTx /\ pc \in {"submit", "done"})

C11_Witness ==
    /\ status = "submitted" /\ Submitted
    /\ Len(utxo_ids) = 2 /\ Len(all_utxos) = 2
    /\ cmd = "TransferPermissionless"


\* C12: one invocation calls submit_transaction at most once; a failed
\* submission is reported and is the last call made to the service.
C12_NoRetry ==
    /\ Cardinality(SubmitIdx) <= 1
    /\ Submitted =>
           /\ pc = "done"
           /\ rpc_log[Len(rpc_log)].method = "submit"
           /\ status = IF rpc_log[Len(rpc_log)].kind = "ok"
                       THEN "submitted" ELSE "submit_failed"
    /\ status \in {"submitted", "submit_failed"} => Submitted

C12_Witness ==
    /\ status = "submit_failed" /\ pc = "done"
    /\ Cardinality(SubmitIdx) = 1
    /\ rpc_log[Len(rpc_log)].kind = "err"


(***************************************************************************)
(* FnSpec: the prover calls' parsing, call_rpc and the scalar codec, each  *)
(* applied on its own to every input of a bounded set.                     *)
(***************************************************************************)
Probe(fn, input, origin) ==
    [fn |-> fn, done |-> FALSE, input |-> input, output |-> <<>>, origin |-> origin]

\* Every string of up to MaxStr characters out of two hex digits and ','.
ProbeStrings == UNION {[1 .. n -> {10, 11, Comma}] : n \in 0 .. MaxStr}
ProbeFfi == {FfiNull} \cup {FfiStr(s) : s \in ProbeStrings}
ProbeResults == {JsonOther, JsonStr(<<>>), JsonStr(<<10>>)}
\* Arguments of construct_transfer_tx: two inputs (the second possibly the
\* zero placeholder), destination, amount and change owner.
ProbeInputs == {Input(i, Out(a, o, <<>>)) : i \in ChainIds, a \in UtxoAmounts, o \in Addrs}
ProbeTxArgs ==
    [input1 : ProbeInputs, input2 : ProbeInputs \cup {Input(0, OutDefault)},
     to : ToAddrs, amount : Amounts, change_to : Addrs]
ProbeReplies ==
    {Reply(FALSE, 0, FALSE, JsonOther)}
    \cup {Reply(TRUE, e, FALSE, JsonOther) : e \in {1, 2}}
    \cup {Reply(FALSE, 0, TRUE, r) : r \in ProbeResults}
    \cup {Reply(TRUE, e, TRUE, r) : e \in {1, 2}, r \in ProbeResults}

rest == <<args, chain, pc, hops, current_id, utxo_ids, fetch_idx, all_utxos, selected,
          from_address, tx, proved, addr, wp_tx, status, rpc_log, last_utxo_id,
          total_utxos, pages>>

InitFn ==
    /\ probe \in {Probe("generate_proof_hash_wallet", f, NoFr) : f \in ProbeFfi}
            \cup {Probe("generate_proof_permissionless", f, NoFr) : f \in ProbeFfi}
            \cup {Probe("call_rpc", r, NoFr) : r \in ProbeReplies}
            \cup {Probe("to_hex", x, x) : x \in Fr}
            \cup {Probe("construct_transfer_tx", a, NoFr) : a \in ProbeTxArgs}
    /\ cmd = "none"
    /\ from_fr = NoFr /\ to_fr = NoFr /\ amount_fr = NoFr /\ secret_fr = NoFr
    /\ ledger = <<>>
    /\ chain = <<>>
    /\ pc = "probe"
    /\ hops = 0
    /\ current_id = NoFr
    /\ utxo_ids = <<>>
    /\ fetch_idx = 1
    /\ all_utxos = <<>>
    /\ selected = NoneSel
    /\ from_address = NoFr
    /\ tx = NoTx
    /\ proved = NoTx
    /\ addr = NoFr
    /\ wp_tx = NoWp
    /\ status = "running"
    /\ rpc_log = <<>>
    /\ last_utxo_id = NoCursor
    /\ total_utxos = 0
    /\ pages = <<>>

ProveHashWallet ==
    /\ pc = "probe"
    /\ probe.fn = "generate_proof_hash_wallet" /\ ~probe.done
    /\ probe' = [probe EXCEPT !.done = TRUE, !.output = generate_proof_hash_wallet(probe.input)]
    /\ UNCHANGED rest

ProvePermissionless ==
    /\ pc = "probe"
    /\ probe.fn = "generate_proof_permissionless" /\ ~probe.done
    /\ probe' = [probe EXCEPT !.done = TRUE, !.output = generate_proof_permissionless(probe.input)]
    /\ UNCHANGED rest

CallRpc ==
    /\ pc = "probe"
    /\ probe.fn = "call_rpc" /\ ~probe.done
    /\ probe' = [probe EXCEPT !.done = TRUE, !.output = call_rpc(probe.input)]
    /\ UNCHANGED rest

ToHex ==
    /\ pc = "probe"
    /\ probe.fn = "to_hex" /\ ~probe.done
    /\ probe' = [probe EXCEPT !.done = TRUE, !.output = to_hex(probe.input)]
    /\ UNCHANGED rest

\* from_hex applied to what to_hex has produced.
FromHex ==
    /\ pc = "probe"
    /\ probe.fn = "to_hex" /\ probe.done
    /\ probe' = [fn |-> "from_hex", done |-> TRUE, input |-> probe.output,
                 output |-> from_hex(probe.output), origin |-> probe.origin]
    /\ UNCHANGED rest

ConstructTransferTx ==
    /\ pc = "probe"
    /\ probe.fn = "construct_transfer_tx" /\ ~probe.done
    /\ LET a == probe.input
       IN probe' = [probe EXCEPT !.done = TRUE,
                        !.output = construct_transfer_tx(a.input1, a.input2, a.to,
                                                         a.amount, a.change_to)]
    /\ UNCHANGED rest

NextFn ==
    \/ ProveHashWallet
    \/ ProvePermissionless
    \/ CallRpc
    \/ ToHex
    \/ FromHex
    \/ ConstructTransferTx

FnSpec == InitFn /\ [][NextFn]_vars

\* C13: a prover result is accepted exactly when it is a non-empty string of
\* three comma-separated fields, which come back in order as (proof, vk,
\* address); a null result, the empty string and strings of fewer or more
\* fields are rejected; the same for both prover calls.
C13_ProverParsing ==
    (probe.fn \in {"generate_proof_hash_wallet", "generate_proof_permissionless"}
        /\ probe.done) =>
        LET s == probe.input.str
            commas == {i \in DOMAIN s : s[i] = Comma}
            accepted == ~probe.input.null /\ s # <<>> /\ Cardinality(commas) = 2
            out == probe.output
        IN /\ out.ok <=> accepted
           /\ out.ok => out.proof \o <<Comma>> \o out.vk \o <<Comma>> \o out.addr = s
           /\ ~out.ok => out = NoParts

C13_Witness ==
    /\ probe.fn = "generate_proof_permissionless" /\ probe.done
    /\ probe.output.ok
    /\ probe.output.proof = <<10>> /\ probe.output.vk = <<11>>
    /\ probe.output.addr = <<10>>

\* C14: call_rpc answers a reply that has an error with an error carrying the
\* server's payload, also when a result is present; a reply with neither with
\* an error; and only a reply with a result and no error with Ok(result).
C14_RpcValidation ==
    (probe.fn = "call_rpc" /\ probe.done) =>
        LET reply == probe.input
            out == probe.output
        IN /\ reply.has_error =>
                  (~out.ok /\ out.err = "rpc" /\ out.payload = reply.error)
           /\ (~reply.has_error /\ ~reply.has_result) =>
                  (~out.ok /\ out.err = "noresult")
           /\ (~reply.has_error /\ reply.has_result) =>
                  (out.ok /\ out.value = reply.result)

C14_Witness ==
    /\ probe.fn = "call_rpc" /\ probe.done
    /\ probe.input.has_error /\ probe.input.has_result
    /\ ~probe.output.ok /\ probe.output.payload = 2

\* C15: to_hex(x) is the hex text of exactly 32 bytes, zero-padded on the
\* left, and from_hex(to_hex(x)) = x, for every scalar x.
C15_CodecRoundTrip ==
    /\ (probe.fn = "to_hex" /\ probe.done) =>
           /\ Len(probe.output) = 64
           /\ \A i \in 1 .. 64 : probe.output[i] \in 0 .. 15
           /\ \A i \in 1 .. 62 : probe.output[i] = 0
           /\ 16 * probe.output[63] + probe.output[64] = probe.input
    /\ probe.fn = "from_hex" =>
           (probe.output.ok /\ probe.output.val = probe.origin)

C15_Witness ==
    /\ probe.fn = "from_hex" /\ probe.done
    /\ probe.origin = 60 /\ probe.output.val = 60
    /\ probe.input[63] = 3 /\ probe.input[64] = 12

\* C16: fr_gte answers true for every pair of scalars, so for every non-empty
\* list select_utxos returns the first discovered output with the zero
\* placeholder as second input, and never a pair of outputs.
C16_DegenerateSelection ==
    /\ \A x, y \in Fr : fr_gte(x, y)
    /\ (Selected /\ all_utxos # <<>>) => selected = SomeSel(all_utxos[1], Placeholder)
    /\ selected.some => selected.b = Placeholder

C16_Witness ==
    /\ Selected /\ Len(all_utxos) = MaxLen
    /\ Amt(1) < Need /\ Amt(2) >= Need
    /\ selected = SomeSel(all_utxos[1], Placeholder)

\* The get_utxo calls made so far, and those whose content decoded.
IsFetch(c) == c.method = "get_utxo"
IsDecoded(c) == c.method = "get_utxo" /\ c.kind = "out"
Fetches == SelectSeq(rpc_log, IsFetch)
Decoded == SelectSeq(rpc_log, IsDecoded)
PastFetch ==
    \/ pc \in {"select", "address", "construct", "prove", "submit"}
    \/ status \in {"insufficient", "prover_failed", "address_mismatch", "submitted",
                   "submit_failed"}

\* C17: past the fetch loop every discovered id has been asked for with
\* get_utxo, in chain order; content that does not decode is skipped and the
\* loop goes on; all_utxos is exactly the discovered ids whose content was
\* fetched and decoded, in chain order, each with its own decoded output.
C17_BestEffortFetch ==
    /\ [i \in DOMAIN Fetches |-> Fetches[i].arg] = SubSeq(utxo_ids, 1, Len(Fetches))
    /\ PastFetch => Len(Fetches) = Len(utxo_ids)
    /\ pc = "fetch" => (status = "running" /\ Len(Fetches) < Len(utxo_ids))
    /\ all_utxos = [i \in DOMAIN Decoded |->
                       Input(Decoded[i].arg, Out(Decoded[i].val, from_fr, <<>>))]

C17_Witness ==
    /\ pc = "select"
    /\ utxo_ids = <<2, 1>>
    /\ Fetches[1].kind = "bad"
    /\ all_utxos = <<Input(1, Out(5, from_fr, <<>>))>>

\* C18: construct_transfer_tx returns ix = id of the first input, iy = id of
\* the second input (zero for the placeholder), ox = (amount, destination,
\* three zero scalars) and oy = (change, change owner, empty payload), the
\* change being the inputs' sum less amount and fee in the field.
C18_TxShape ==
    (probe.fn = "construct_transfer_tx" /\ probe.done) =>
        LET a == probe.input
            t == probe.output
        IN /\ t.ix = a.input1.id
           /\ t.iy = a.input2.id
           /\ a.input2 = Placeholder => t.iy = 0
           /\ t.ox.amount = a.amount /\ t.ox.owner = a.to
           /\ Len(t.ox.data) = 3 /\ \A i \in 1 .. 3 : t.ox.data[i] = 0
           /\ t.oy.amount =
                  (a.input1.out.amount + a.input2.out.amount
                      + 2 * FrModulus - a.amount - 3) % FrModulus
           /\ t.oy.owner = a.change_to
           /\ t.oy.data = <<>>

C18_Witness ==
    /\ probe.fn = "construct_transfer_tx" /\ probe.done
    /\ probe.input.input1.id = 2 /\ probe.input.input2.id = 1
    /\ probe.output.ix = 2 /\ probe.output.iy = 1
    /\ probe.output.oy.amount = 20 + 5 - 10 - 3

(***************************************************************************)
(* ListSpec: the ListUtxos command, paging through the account's outputs.  *)
(***************************************************************************)
\* The result object of get_list_of_utxo_by_owner_paginated: "utxos" (an
\* array of JSON values, or something else) and "last_utxo_id" (a string, or
\* absent).
Page(has_array, utxos, last) ==
    [has_array |-> has_array, utxos |-> utxos, last_utxo_id |-> last]

NoneStr == [some |-> FALSE, str |-> <<>>]
SomeStr(s) == [some |-> TRUE, str |-> s]
PagedErr == [ok |-> FALSE, utxos |-> <<>>, last |-> NoneStr]

get_utxos_paginated(reply) ==
    LET result == call_rpc(reply)
    IN IF ~result.ok THEN PagedErr
       ELSE IF ~result.value.has_array THEN PagedErr
       ELSE LET items == result.value.utxos
                utxos == [i \in DOMAIN items |-> AsStrOrEmpty(items[i])]
                last == IF result.value.last_utxo_id.is_str
                        THEN SomeStr(result.value.last_utxo_id.str)
                        ELSE NoneStr
            IN [ok |-> TRUE, utxos |-> utxos, last |-> last]

ZeroCursor == [i \in 1 .. 64 |-> 0]

RECURSIVE CountDecoded(_)
CountDecoded(utxos) ==
    IF utxos = <<>> THEN 0
    ELSE (IF decode_utxo(Head(utxos)).ok THEN 1 ELSE 0) + CountDecoded(Tail(utxos))

Loop(last, total, stop) == [last |-> last, total |-> total, stop |-> stop]

list_step_StaleCursor(r, last, total) ==
    IF ~r.ok THEN Loop(last, total, TRUE)
    ELSE IF r.utxos = <<>> THEN Loop(last, total, TRUE)
    ELSE LET counted == total + CountDecoded(r.utxos)
         IN IF r.last.some /\ r.last.str # <<>>
            THEN Loop(last, counted, FALSE)
            ELSE Loop(last, counted, TRUE)

\* One turn of the loop on the answer r of get_utxos_paginated.
list_step(r, last, total) ==
    IF ~r.ok THEN Loop(last, total, TRUE)
    ELSE IF r.utxos = <<>> THEN Loop(last, total, TRUE)
    ELSE LET counted == total + CountDecoded(r.utxos)
         IN IF r.last.some /\ r.last.str # <<>>
            THEN Loop(r.last.str, counted, FALSE)
            ELSE Loop(last, counted, TRUE)

\* What the service may answer to a page request.
GoodItem(owner) == JsonStr(hex_encode(OutEnc(Out(5, owner, <<>>))))
BadItem == JsonStr(ShortHex)
PageItems(owner) ==
    { <<>>, <<GoodItem(owner)>>, <<BadItem, GoodItem(owner)>>, <<JsonOther>>,
      <<GoodItem(owner), GoodItem(owner)>> }
PageCursors == {JsonOther, JsonStr(<<>>), JsonStr(<<1>>), JsonStr(<<2>>)}
PageReplies(owner) ==
    {Reply(TRUE, 1, FALSE, Page(FALSE, <<>>, JsonOther)),
     Reply(FALSE, 0, FALSE, Page(FALSE, <<>>, JsonOther)),
     Reply(FALSE, 0, TRUE, Page(FALSE, <<>>, JsonStr(<<1>>)))}
    \cup {Reply(FALSE, 0, TRUE, Page(TRUE, u, c)) : u \in PageItems(owner), c \in PageCursors}

PageCall(cursor, reply) == [cursor |-> cursor, reply |-> reply]

InitList ==
    /\ cmd = "ListUtxos"
    /\ from_fr \in Addrs
    /\ to_fr = NoFr /\ amount_fr = NoFr /\ secret_fr = NoFr
    /\ ledger = <<>>
    /\ chain = <<>>
    /\ pc = "list"
    /\ hops = 0
    /\ current_id = NoFr
    /\ utxo_ids = <<>>
    /\ fetch_idx = 1
    /\ all_utxos = <<>>
    /\ selected = NoneSel
    /\ from_address = NoFr
    /\ tx = NoTx
    /\ proved = NoTx
    /\ addr = NoFr
    /\ wp_tx = NoWp
    /\ status = "running"
    /\ rpc_log = <<>>
    /\ last_utxo_id = ZeroCursor
    /\ total_utxos = 0
    /\ pages = <<>>
    /\ probe = NoProbe

GetUtxosPaginated ==
    /\ pc = "list"
    /\ Len(pages) < MaxPages
    /\ \E reply \in PageReplies(from_fr) :
         LET r == get_utxos_paginated(reply)
             l == list_step(r, last_utxo_id, total_utxos)
         IN /\ pages' = Append(pages, PageCall(last_utxo_id, reply))
            /\ last_utxo_id' = l.last
            /\ total_utxos' = l.total
            /\ pc' = IF l.stop THEN "done" ELSE "list"
            /\ status' = IF l.stop THEN "listed" ELSE status
    /\ UNCHANGED <<args, chain, hops, current_id, utxo_ids, fetch_idx, all_utxos,
                   selected, from_address, tx, proved, addr, wp_tx, rpc_log, probe>>

NextList == GetUtxosPaginated

ListSpec == InitList /\ [][NextList]_vars

\* A page was received: the request succeeded and "utxos" is an array.
Received(c) == ~c.reply.has_error /\ c.reply.has_result /\ c.reply.result.has_array
\* The UTXO strings of a received page that decode.
Decodable(c) ==
    {i \in DOMAIN c.reply.result.utxos :
        /\ c.reply.result.utxos[i].is_str
        /\ c.reply.result.utxos[i] = GoodItem(from_fr)}
HasNext(c) ==
    c.reply.result.last_utxo_id.is_str /\ c.reply.result.last_utxo_id.str # <<>>
\* The loop ends on this page.
Stops(c) == ~Received(c) \/ c.reply.result.utxos = <<>> \/ ~HasNext(c)
RECURSIVE PagesTotal(_)
PagesTotal(n) ==
    IF n = 0 THEN 0
    ELSE PagesTotal(n - 1)
         + (IF Received(pages[n]) THEN Cardinality(Decodable(pages[n])) ELSE 0)

\* C19: ListUtxos asks for the first page with the all-zero cursor and for
\* each later page with the cursor the page before returned; it stops at the
\* first page that is empty, or has an empty or absent next cursor, or whose
\* request failed; the total is the number of UTXO strings of all received
\* pages that decoded.
C19_Pagination ==
    /\ pages # <<>> =>
           /\ Len(pages[1].cursor) = 64
           /\ \A k \in 1 .. 64 : pages[1].cursor[k] = 0
    /\ \A i \in 2 .. Len(pages) :
           /\ ~Stops(pages[i - 1])
           /\ pages[i].cursor = pages[i - 1].reply.result.last_utxo_id.str
    /\ pc = "done" <=> (pages # <<>> /\ Stops(pages[Len(pages)]))
    /\ (pc = "done") <=> (status = "listed")
    /\ total_utxos = PagesTotal(Len(pages))

C19_Witness ==
    /\ pc = "done" /\ status = "listed"
    /\ Len(pages) = 3
    /\ pages[2].cursor = <<1>> /\ pages[3].cursor = <<2>>
    /\ Len(pages[1].reply.result.utxos) = 2
    /\ total_utxos = 1 + 2
    /\ pages[3].reply.result.utxos = <<>>

\* C20: in every proved transaction that is submitted, the owner of the
\* change output oy is the address the prover attested (with Transfer the
\* address derived from the secret, with TransferPermissionless the declared
\* from), and Wp.val is the transaction whose public inputs the prover got.
C20_ChangeOwnerAttested ==
    (pc = "submit" \/ Submitted) =>
        /\ wp_tx # NoWp
        /\ wp_tx.val = proved
        /\ wp_tx.val.oy.owner = addr
        /\ cmd = "Transfer" => wp_tx.val.oy.owner = from_address
        /\ cmd = "TransferPermissionless" => wp_tx.val.oy.owner = from_fr

C20_Witness ==
    /\ status = "submitted" /\ cmd = "Transfer"
    /\ from_address # from_fr
    /\ wp_tx.val.oy.owner = from_address /\ addr = from_address

\* C21: every transaction a transfer command assembles has a first input id
\* that is not zero and two different input ids, whatever the service
\* answers, also when the chain cycles and discovery collects an id twice.
C21_DistinctInputs ==
    /\ tx # NoTx => (tx.ix # 0 /\ tx.ix # tx.iy)
    /\ wp_tx # NoWp => (wp_tx.val.ix # 0 /\ wp_tx.val.ix # wp_tx.val.iy)
    /\ \A i \in DOMAIN utxo_ids : utxo_ids[i] # 0

C21_Witness ==
    /\ tx # NoTx
    /\ Len(utxo_ids) = HopCap
    /\ Len(all_utxos) > 2
    /\ all_utxos[1].id = all_utxos[2].id
    /\ Amt(1) < Need /\ Amt(1) + Amt(2) >= Need
    /\ tx.ix = all_utxos[1].id /\ tx.iy = 0

====
